---- MODULE Spec2Model ----
(***************************************************************************)
(* NEXUS v5: the deviation-triggered recalibration core.                   *)
(*                                                                         *)
(*   sensor_engine.py         SensorEngine.simulate_stream,                *)
(*                            SensorEngine.ingest_real_readings            *)
(*   recalibration_engine.py  AdaptiveRecalibrationEngine.generate_patch,  *)
(*                            _gemini_explanations                         *)
(*   gemini_client.py         call_gemini (the second, effective           *)
(*                            definition), call_gemini_json                *)
(*   nexus_pipeline.py        NEXUSPipeline.run                            *)
(*   server.py                POST /sensor/stream                          *)
(*                                                                         *)
(* Number model.  The program computes on IEEE doubles; the model uses     *)
(* exact fixed-point integers and rounds half-to-even where the code       *)
(* calls round():                                                          *)
(*   readings, baselines        tenths of kN/m2      (180.0  -> 1800)      *)
(*   a stream's deviation       hundredths of a %    (16.89  -> 1689)      *)
(*   generate_patch's argument  thousandths of a %   (20.004 -> 20004)     *)
(*   budgets and cost deltas    hundredths of a Cr   (12.5   -> 1250)      *)
(* Only finite values are represented: a baseline of exactly 0 (the        *)
(* division then yields inf or nan) is outside the number model.           *)
(***************************************************************************)
EXTENDS Integers, Sequences, FiniteSets, TLC

VARIABLES call, outcome, stream, recent_avg, patch, prev, loc, gem, first,
          run, req, resp

vars == <<call, outcome, stream, recent_avg, patch, prev, loc, gem, first,
          run, req, resp>>

(***************************************************************************)
(* Bounds of the explored input space.                                     *)
(***************************************************************************)
MaxTotal == 6
MaxRaw == 6

(***************************************************************************)
(* Arithmetic helpers.                                                     *)
(***************************************************************************)
Abs(x) == IF x < 0 THEN 0 - x ELSE x

Max(a, b) == IF a >= b THEN a ELSE b

\* floor(n / d) for d > 0, whatever the sign of n
FloorDiv(n, d) == IF n >= 0 THEN n \div d ELSE 0 - ((d - 1 - n) \div d)

\* round(num / den) to the nearest integer, ties to the even one: Python's
\* round(x, k) read on the scaled value
RoundHalfEven(num, den) ==
    LET n == IF den < 0 THEN 0 - num ELSE num
        d == Abs(den)
        q == FloorDiv(n, d)
        r == n - q * d
    IN  IF 2 * r < d THEN q
        ELSE IF 2 * r > d THEN q + 1
        ELSE IF q % 2 = 0 THEN q ELSE q + 1

RECURSIVE SumSeq(_)
SumSeq(s) == IF s = <<>> THEN 0 ELSE Head(s) + SumSeq(Tail(s))

\* s[-5:]
LastFive_four(s) == SubSeq(s, Max(1, Len(s) - 3), Len(s))

LastFive(s) == SubSeq(s, Max(1, Len(s) - 4), Len(s))

(***************************************************************************)
(* sensor_engine.py                                                        *)
(***************************************************************************)
SensorReading(i, v, a) == [index |-> i, sbc_kNm2 |-> v, is_anomaly |-> a]

SbcValues(readings) == [i \in 1..Len(readings) |-> readings[i].sbc_kNm2]

\* np.mean(window), kept as the exact fraction sum / n
Mean(window) == [sum |-> SumSeq(window), n |-> Len(window)]

\* round((design_sbc - recent_avg) / design_sbc * 100, 2), in hundredths of a %
DeviationPercent_floor(design_sbc, avg) ==
    FloorDiv((avg.n * design_sbc - avg.sum) * 10000 * (IF design_sbc < 0 THEN 0 - 1 ELSE 1),
             Abs(avg.n * design_sbc))

DeviationPercent(design_sbc, avg) ==
    RoundHalfEven((avg.n * design_sbc - avg.sum) * 10000, avg.n * design_sbc)

\* alert_level of simulate_stream; dev in hundredths of a %
SimAlertLevel_ge(dev) ==
    IF dev >= 20 * 100 THEN "CRITICAL"
    ELSE IF dev >= 10 * 100 THEN "WARNING"
    ELSE IF dev >= 5 * 100 THEN "WATCH"
    ELSE "NONE"

SimAlertLevel(dev) ==
    IF dev > 20 * 100 THEN "CRITICAL"
    ELSE IF dev > 10 * 100 THEN "WARNING"
    ELSE IF dev > 5 * 100 THEN "WATCH"
    ELSE "NONE"

\* alert_level of ingest_real_readings
RawAlertLevel(dev) ==
    IF dev > 20 * 100 THEN "CRITICAL"
    ELSE IF dev > 10 * 100 THEN "WARNING"
    ELSE IF dev > 5 * 100 THEN "WATCH"
    ELSE "NONE"

\* trigger_recal = deviation_percent > 5.0, in simulate_stream
SimTriggerRecal_ge(dev) == dev >= 5 * 100

SimTriggerRecal(dev) == dev > 5 * 100

\* trigger_recal = deviation_percent > 5.0, in ingest_real_readings
RawTriggerRecal_ge(dev) == dev >= 5 * 100

RawTriggerRecal(dev) == dev > 5 * 100

SensorStreamResult(readings, detected, dev, alert, trigger) ==
    [readings           |-> readings,
     deviation_detected |-> detected,
     deviation_percent  |-> dev,
     alert_level        |-> alert,
     trigger_recal      |-> trigger]

\* The i-th standard-normal variate (in tenths) of a generator seeded with k.
\* The bit generator is numpy's; what the model keeps of it is that the
\* variate is a fixed function of the seed and of the position in the stream.
SeededVariate(k, i) == <<0, 2, 12>>[((7 * k + 3 * i * i + i) % 3) + 1]

\* rng = np.random.default_rng(seed): the n variates the generator yields.
\* seed is {} for None, and the generator then draws from fresh entropy.
Generator_unseeded(seed, entropy, n) == entropy

Generator(seed, entropy, n) ==
    IF seed = {} THEN entropy
    ELSE [i \in 1..n |-> SeededVariate(CHOOSE k \in seed : TRUE, i)]

\* One draw of rng.normal(mean, sd) = mean + sd * z, rounded to one decimal.
\* z is the standard-normal variate in tenths; sd is 5 (normal regime) or
\* 10 (degraded regime, centred at 0.78 * design_sbc).
DrawReading(design_sbc, is_anomaly, z) ==
    IF is_anomaly
    THEN RoundHalfEven(78 * design_sbc + 1000 * z, 100)
    ELSE RoundHalfEven(10 * design_sbc + 50 * z, 10)

SimReadings_gt(design_sbc, deviation_start, total, zs) ==
    [i \in 1..total |->
        SensorReading(i, DrawReading(design_sbc, i > deviation_start, zs[i]),
                      i > deviation_start)]

SimReadings(design_sbc, deviation_start, total, zs) ==
    [i \in 1..total |->
        SensorReading(i, DrawReading(design_sbc, i >= deviation_start, zs[i]),
                      i >= deviation_start)]

\* deviation_detected of simulate_stream: set in the loop by any anomalous draw
SimDetected(readings) == \E i \in 1..Len(readings) : readings[i].is_anomaly

\* whether simulate_stream evaluates the window average
SimWindow(readings) ==
    IF SimDetected(readings) THEN {Mean(LastFive(SbcValues(readings)))} ELSE {}

SimulateStreamResult(design_sbc, deviation_start, total, zs) ==
    LET readings == SimReadings(design_sbc, deviation_start, total, zs)
        detected == SimDetected(readings)
        dev == IF detected
               THEN DeviationPercent(design_sbc, Mean(LastFive(SbcValues(readings))))
               ELSE 0
    IN  SensorStreamResult(readings, detected, dev, SimAlertLevel(dev),
                           SimTriggerRecal(dev))

RawReadings(raw_values) ==
    [i \in 1..Len(raw_values) |-> SensorReading(i, raw_values[i], FALSE)]

\* the short-circuit of ingest_real_readings
TooShort_le(raw_values) == Len(raw_values) < 2

TooShort(raw_values) == Len(raw_values) < 3

IngestWindow(raw_values) ==
    IF TooShort(raw_values) THEN {} ELSE {Mean(LastFive(raw_values))}

\* deviation_detected of the raw path
RawDetected_neg(dev) == dev < 0

RawDetected(dev) == dev > 0

IngestResult(raw_values, design_sbc) ==
    LET readings == RawReadings(raw_values)
    IN  IF TooShort(raw_values)
        THEN SensorStreamResult(readings, FALSE, 0, "NONE", FALSE)
        ELSE LET dev == DeviationPercent(design_sbc, Mean(LastFive(raw_values)))
             IN  SensorStreamResult(readings, RawDetected(dev), dev,
                                    RawAlertLevel(dev), RawTriggerRecal(dev))

(***************************************************************************)
(* config.py                                                               *)
(***************************************************************************)
DEVIATION_CRITICAL == 20

DEVIATION_MODERATE == 10

SENSOR_TOTAL_READINGS == 20

SENSOR_DEVIATION_START == 12

IS_CODES == [foundation |-> "IS 1080, IS 6403", seismic |-> "IS 1893 (Part 1)"]

(***************************************************************************)
(* Text.  A string is the sequence of its non-empty fragments, so that the *)
(* empty string is <<>> and concatenation is \o.                           *)
(***************************************************************************)
\* f"{x:.1f}" for x in thousandths: correctly rounded to one decimal, the
\* sign kept for a negative x that rounds to zero ("-0.0")
FormatOneDecimal(x) ==
    LET t == Abs(RoundHalfEven(x, 100))
    IN  (IF x < 0 THEN <<"-">> ELSE <<>>)
            \o <<ToString(t \div 10), ".", ToString(t % 10)>>

(***************************************************************************)
(* recalibration_engine.py: the tier table of generate_patch.              *)
(* dev is in thousandths of a %, cost_delta_pct in hundredths (0.18 -> 18) *)
(***************************************************************************)
CriticalTier ==
    [severity       |-> "CRITICAL",
     add_depth_mm   |-> 600,
     add_piles      |-> 4,
     new_risk_band  |-> "LOW",
     cost_delta_pct |-> 18,
     action         |-> <<"Increase founding depth by ", "600", "mm. ",
                          "Add ", "4", " bored cast-in-situ piles per column. ",
                          "Perform additional plate load test per IS 1888.">>]

ModerateTier ==
    [severity       |-> "MODERATE",
     add_depth_mm   |-> 350,
     add_piles      |-> 2,
     new_risk_band  |-> "MODERATE",
     cost_delta_pct |-> 9,
     action         |-> <<"Increase founding depth by ", "350", "mm. ",
                          "Add ", "2", " piles for load redistribution. ",
                          "Recheck SBC with dynamic cone penetration test.">>]

MinorTier ==
    [severity       |-> "MINOR",
     add_depth_mm   |-> 150,
     add_piles      |-> 0,
     new_risk_band  |-> "LOW-MODERATE",
     cost_delta_pct |-> 3,
     action         |-> <<"Increase reinforcement grade from Fe415 to Fe500. ",
                          "Add 150mm to footing depth as precaution.">>]

\* the if / elif / else of generate_patch
SelectTier_ge(dev) ==
    IF dev >= DEVIATION_CRITICAL * 1000 THEN CriticalTier
    ELSE IF dev >= DEVIATION_MODERATE * 1000 THEN ModerateTier
    ELSE MinorTier

SelectTier(dev) ==
    IF dev > DEVIATION_CRITICAL * 1000 THEN CriticalTier
    ELSE IF dev > DEVIATION_MODERATE * 1000 THEN ModerateTier
    ELSE MinorTier

\* cost_delta = round(budget_cr * cost_delta_pct, 2), in hundredths of a Cr
CostDelta_trunc(budget_cr, cost_delta_pct) ==
    FloorDiv(budget_cr * cost_delta_pct, 100)

CostDelta(budget_cr, cost_delta_pct) ==
    RoundHalfEven(budget_cr * cost_delta_pct, 100)

\* requires_approval = severity in ("CRITICAL", "MODERATE")
RequiresApproval(severity) == severity \in {"CRITICAL", "MODERATE"}

\* the strings of the except branch of _gemini_explanations
FallbackRationale(dev) ==
    <<"A ">> \o FormatOneDecimal(dev)
        \o <<"% SBC drop reduces the safety factor below acceptable IS code limits. ",
             "The proposed depth increase and pile addition restore the required bearing capacity per IS 6403. ",
             "Immediate implementation prevents potential differential settlement and structural distress.">>

FallbackInstructions(action) ==
    <<"Stop all foundation work. Contact the structural engineer. ",
      "Implement '">> \o action \o <<"' before resuming.">>

RecalibrationPatch_text_gated(dev, tier, cost_delta, rationale, site_instr) ==
    [deviation_percent |-> RoundHalfEven(dev, 10),
     severity          |-> tier.severity,
     structural_action |-> tier.action,
     add_depth_mm      |-> tier.add_depth_mm,
     add_piles         |-> tier.add_piles,
     new_risk_band     |-> tier.new_risk_band,
     cost_delta_cr     |-> cost_delta,
     is_code_reference |-> <<IS_CODES.foundation, "; ", IS_CODES.seismic>>,
     gemini_rationale  |-> rationale,
     site_instructions |-> site_instr,
     requires_approval |-> RequiresApproval(tier.severity) /\ site_instr # <<>>]

RecalibrationPatch_floor(dev, tier, cost_delta, rationale, site_instr) ==
    [deviation_percent |-> FloorDiv(dev, 10),
     severity          |-> tier.severity,
     structural_action |-> tier.action,
     add_depth_mm      |-> tier.add_depth_mm,
     add_piles         |-> tier.add_piles,
     new_risk_band     |-> tier.new_risk_band,
     cost_delta_cr     |-> cost_delta,
     is_code_reference |-> <<IS_CODES.foundation, "; ", IS_CODES.seismic>>,
     gemini_rationale  |-> rationale,
     site_instructions |-> site_instr,
     requires_approval |-> RequiresApproval(tier.severity)]

RecalibrationPatch(dev, tier, cost_delta, rationale, site_instr) ==
    [deviation_percent |-> RoundHalfEven(dev, 10),
     severity          |-> tier.severity,
     structural_action |-> tier.action,
     add_depth_mm      |-> tier.add_depth_mm,
     add_piles         |-> tier.add_piles,
     new_risk_band     |-> tier.new_risk_band,
     cost_delta_cr     |-> cost_delta,
     is_code_reference |-> <<IS_CODES.foundation, "; ", IS_CODES.seismic>>,
     gemini_rationale  |-> rationale,
     site_instructions |-> site_instr,
     requires_approval |-> RequiresApproval(tier.severity)]

(***************************************************************************)
(* gemini_client.py                                                        *)
(*                                                                         *)
(* A response text is a sequence of tokens: whitespace, code-fence markup, *)
(* a JSON document, or prose.                                              *)
(***************************************************************************)
BothKeysDoc == "{\"rationale\": \"R\", \"site_instructions\": \"S\"}"

OnlyRationaleDoc == "{\"rationale\": \"R\"}"

OnlySiteDoc == "{\"site_instructions\": \"S\"}"

ListDoc == "[\"R\", \"S\"]"

\* a single backtick, a closing or bare code fence, an opening json code fence
Backtick == "<backtick>"

Fence == "<fence>"

FenceJson == "<fence>json"

Whitespace == {" ", "\n"}

\* str.strip()
RECURSIVE LStrip(_)
LStrip(t) == IF t # <<>> /\ Head(t) \in Whitespace THEN LStrip(Tail(t)) ELSE t

RECURSIVE RStrip(_)
RStrip(t) ==
    IF t # <<>> /\ t[Len(t)] \in Whitespace THEN RStrip(SubSeq(t, 1, Len(t) - 1)) ELSE t

Strip(t) == RStrip(LStrip(t))

\* str.rstrip of the backtick character
RECURSIVE RStripBackticks(_)
RStripBackticks(t) ==
    IF t # <<>> /\ t[Len(t)] = Backtick THEN RStripBackticks(SubSeq(t, 1, Len(t) - 1)) ELSE t

\* re.sub(<three backticks, optionally followed by json>, "", raw)
RemoveFences(t) == SelectSeq(t, LAMBDA tok : tok \notin {Fence, FenceJson})

\* raw = re.sub(...).strip().rstrip(<backtick>).strip()
StripFences(t) == Strip(RStripBackticks(Strip(RemoveFences(t))))

\* json.loads: the parsed value, or JSONDecodeError
JsonLoads(t) ==
    IF Len(t) = 1 /\ t[1] = BothKeysDoc
    THEN [ok |-> TRUE, type |-> "dict",
          value |-> [rationale |-> <<"R">>, site_instructions |-> <<"S">>]]
    ELSE IF Len(t) = 1 /\ t[1] = OnlyRationaleDoc
    THEN [ok |-> TRUE, type |-> "dict", value |-> [rationale |-> <<"R">>]]
    ELSE IF Len(t) = 1 /\ t[1] = OnlySiteDoc
    THEN [ok |-> TRUE, type |-> "dict", value |-> [site_instructions |-> <<"S">>]]
    ELSE IF Len(t) = 1 /\ t[1] = ListDoc
    THEN [ok |-> TRUE, type |-> "list", value |-> <<"R", "S">>]
    ELSE [ok |-> FALSE, type |-> "JSONDecodeError", value |-> <<>>]

\* dict.get(key, "")
DictGet(d, key) == IF key \in DOMAIN d THEN d[key] ELSE <<>>

\* "import time" stands after the return and raise of call_gemini_json, inside
\* that function's body: the module never binds the name "time"
TimeIsBound == FALSE

\* the except clause of call_gemini's retry loop, for a failure e of this attempt
ExceptClause_swallow(e, attempt) ==
    IF e.has429 THEN [do |-> "continue", exc |-> e.type]
    ELSE [do |-> "raise", exc |-> e.type]

ExceptClause(e, attempt) ==
    IF e.has429 /\ attempt < 2
    THEN IF TimeIsBound
         THEN [do |-> "continue", exc |-> e.type]
         ELSE [do |-> "raise", exc |-> "NameError"]
    ELSE [do |-> "raise", exc |-> e.type]

\* for attempt in range(3)
RetryRange == 0..2

\* What one iteration of the loop does with the service's answer o:
\* a text is stripped and returned, a missing text fails on .strip(),
\* a failure goes to the except clause.
AttemptStep(g, o) ==
    LET failed == o.kind # "text"
        e == IF o.kind = "none"
             THEN [type |-> "AttributeError", has429 |-> FALSE]
             ELSE [type |-> "ServiceError", has429 |-> o.kind = "error429"]
        h == ExceptClause(e, g.attempt)
    IN  IF ~failed
        THEN [status |-> "returned", attempt |-> g.attempt,
              requests |-> g.requests + 1, value |-> "text",
              text |-> Strip(o.text), exc |-> "-", last |-> o.kind]
        ELSE IF h.do = "raise"
        THEN [status |-> "raised", attempt |-> g.attempt,
              requests |-> g.requests + 1, value |-> "-",
              text |-> <<>>, exc |-> h.exc, last |-> o.kind]
        ELSE IF g.attempt + 1 \in RetryRange
        THEN [status |-> "running", attempt |-> g.attempt + 1,
              requests |-> g.requests + 1, value |-> "-",
              text |-> <<>>, exc |-> "-", last |-> o.kind]
        ELSE [status |-> "returned", attempt |-> g.attempt,
              requests |-> g.requests + 1, value |-> "None",
              text |-> <<>>, exc |-> "-", last |-> o.kind]

\* call_gemini_json on a finished call_gemini: the parsed value, or the
\* exception that leaves call_gemini_json
CallGeminiJson(g) ==
    IF g.status = "raised" THEN [ok |-> FALSE, type |-> g.exc, value |-> <<>>]
    ELSE IF g.value = "None" THEN [ok |-> FALSE, type |-> "TypeError", value |-> <<>>]
    ELSE LET parsed == JsonLoads(StripFences(g.text))
         IN  IF parsed.ok THEN parsed
             ELSE [ok |-> FALSE, type |-> "ValueError", value |-> <<>>]

\* except Exception: every failure modelled here is a subclass of Exception
ExceptionCaught_value_error(exc) == exc = "ValueError"

ExceptionCaught_no_attribute(exc) ==
    exc \in {"ServiceError", "NameError", "TypeError", "ValueError"}

ExceptionCaught(exc) ==
    exc \in {"ServiceError", "AttributeError", "NameError", "TypeError", "ValueError"}

\* _gemini_explanations: (rationale, site_instructions), or the exception
\* that escapes it
GeminiExplanations(dev, action, g) ==
    LET result == CallGeminiJson(g)
        exc == IF ~result.ok THEN result.type
               ELSE IF result.type # "dict" THEN "AttributeError"
               ELSE "-"
    IN  IF exc = "-"
        THEN [raised |-> FALSE, exc |-> "-",
              rationale  |-> DictGet(result.value, "rationale"),
              site_instr |-> DictGet(result.value, "site_instructions")]
        ELSE IF ExceptionCaught(exc)
        THEN [raised |-> FALSE, exc |-> "-",
              rationale  |-> FallbackRationale(dev),
              site_instr |-> FallbackInstructions(action)]
        ELSE [raised |-> TRUE, exc |-> exc, rationale |-> <<>>, site_instr |-> <<>>]

(***************************************************************************)
(* The explored inputs.                                                    *)
(***************************************************************************)
\* design_sbc: 100.0 and 90.0 kN/m2, and an invalid negative baseline
Baselines == {1000, 900, -1000}

SimBaselines == {1000, -1000}

\* total, including the invalid 0 and -1
Totals == -1..MaxTotal

\* deviation_start, including 0 and total + 1 (outside 1..total)
Starts(total) == {0, 1, 2, total, total + 1}

\* standard-normal variates, in tenths: with design_sbc = 100.0 the degraded
\* regime then draws 78.0, 80.0 and 90.0, the normal regime 100.0, 101.0
\* and 106.0
ZDraws == {0, 2, 12}

\* seed: None, or one of two seeds
Seeds == {{}, {1}, {2}}

\* the entropy an unseeded generator would draw: any stream of variates for
\* a call made without a seed, the same variate throughout otherwise (a
\* seeded call does not read it)
ConstantStreams(n) == {[i \in 1..n |-> z] : z \in ZDraws}

Entropies(seed, n) == IF seed = {} THEN [1..n -> ZDraws] ELSE ConstantStreams(n)

RawValues == {800, 900, 950}

RawSequences == UNION {[1..n -> RawValues] : n \in 0..MaxRaw}

\* the two scenarios of the specification, against a baseline of 180.0
ScenarioDrop == <<1800, 1500, 1480, 1510, 1490>>

ScenarioSteady == <<1800, 1790, 1810, 1780, 1800>>

IngestInputs ==
    (RawSequences \X Baselines)
        \cup ({ScenarioDrop, ScenarioSteady, <<1800, 1500>>} \X {1800})

\* deviation_percent handed to generate_patch, in thousandths of a %
PatchDeviations ==
    {-5000, 0, 9996, 10000, 10004, 13560, 16890, 20000, 20004, 25000}

\* budget_cr, in hundredths of a Cr
Budgets == {-1000, 0, 25, 50, 1250}

\* project_context and current_variant: the defaults ("" and None), or a
\* brief and the recommended variant
Narratives ==
    {[project_context |-> <<>>, current_variant |-> {}],
     [project_context |-> <<"Project: P1 | Structure: G+12 tower">>,
      current_variant |-> {[id |-> "V3", risk_score |-> 15]}]}

ServiceTexts ==
    {<<BothKeysDoc>>,
     <<BothKeysDoc, "\n">>,
     <<FenceJson, "\n", BothKeysDoc, "\n", Fence>>,
     <<BothKeysDoc, Backtick>>,
     <<OnlyRationaleDoc>>,
     <<OnlySiteDoc>>,
     <<ListDoc>>,
     <<"Sure, here is the JSON: ", BothKeysDoc>>,
     <<>>}

\* what one request to the text-generation service can do
ServiceOutcomes ==
    {[kind |-> "text", text |-> t] : t \in ServiceTexts}
        \cup {[kind |-> k, text |-> <<>>] : k \in {"none", "error429", "error"}}

(***************************************************************************)
(* State.                                                                  *)
(*   call        the arguments of the call in progress or last finished    *)
(*   outcome     "none", "running", "returned" or "raised" for that call   *)
(*   stream      the SensorStreamResult it returned, if any                *)
(*   recent_avg  the window average it computed, if any                    *)
(*   patch       the RecalibrationPatch it returned, if any                *)
(*   prev        the patch of the call before, without its two narrative   *)
(*               fields, and the deviation and budget it was made for      *)
(*   loc         the locals of generate_patch                              *)
(*   gem         the locals of call_gemini; last is what the service did   *)
(*               with the latest request                                   *)
(*   first       the result of the same simulate_stream call made before   *)
(*   run         the locals of NEXUSPipeline.run; pc is its next step      *)
(*   req         the SensorRequest posted to /sensor/stream                *)
(*   resp        the response of /sensor/stream, if any                    *)
(***************************************************************************)
NoCall ==
    [op |-> "none", design_sbc |-> 0, deviation_start |-> 0, total |-> 0,
     seed |-> {}, zs |-> <<>>, raw_values |-> <<>>, deviation_percent |-> 0,
     budget_cr |-> 0, project_context |-> <<>>, current_variant |-> {}]

SimulateCalls ==
    UNION {UNION {UNION {
        {[NoCall EXCEPT !.op = "simulate_stream", !.design_sbc = b,
                        !.deviation_start = s, !.total = n, !.seed = k,
                        !.zs = z] :
            b \in SimBaselines, z \in Entropies(k, n)} :
        k \in Seeds} : s \in Starts(n)} : n \in Totals}

IngestCalls ==
    {[NoCall EXCEPT !.op = "ingest_real_readings", !.raw_values = in[1],
                    !.design_sbc = in[2]] : in \in IngestInputs}

NoLoc == [tier |-> MinorTier, cost_delta |-> 0]

NoProject == [load_kN |-> 0, budget_cr |-> 0, seismic_zone |-> "-"]

NoRun ==
    [pc |-> "idle", project |-> NoProject, recommended |-> {}, sim |-> {},
     policy_calls |-> 0, impact |-> {}, exc |-> "-"]

NoReq == [posted |-> FALSE, design_sbc |-> 0, readings |-> {}]

IdleGem ==
    [status |-> "idle", attempt |-> 0, requests |-> 0, value |-> "-",
     text |-> <<>>, exc |-> "-", last |-> "-"]

\* The sensor entry points are pure functions of their arguments: the
\* arguments (and the variates the generator will draw) are fixed here.
Init ==
    /\ call \in {NoCall} \cup SimulateCalls \cup IngestCalls
    /\ outcome = "none"
    /\ stream = {}
    /\ recent_avg = {}
    /\ patch = {}
    /\ prev = {}
    /\ loc = NoLoc
    /\ gem = IdleGem
    /\ first = {}
    /\ run = NoRun
    /\ req = NoReq
    /\ resp = {}

\* SensorEngine.simulate_stream
simulate_stream ==
    /\ outcome = "none"
    /\ call.op = "simulate_stream"
    /\ LET zs == Generator(call.seed, call.zs, call.total)
       IN  /\ stream' = {SimulateStreamResult(call.design_sbc, call.deviation_start,
                                              call.total, zs)}
           /\ recent_avg' = SimWindow(SimReadings(call.design_sbc,
                                          call.deviation_start, call.total, zs))
    /\ outcome' = "returned"
    /\ UNCHANGED <<call, patch, prev, loc, gem, first, run, req, resp>>

\* SensorEngine.simulate_stream called a second time with the same
\* design_sbc, deviation_start, total and seed; only the entropy is new
repeat_simulate_stream ==
    /\ outcome = "returned"
    /\ call.op = "simulate_stream"
    /\ first = {}
    /\ \E entropy \in ConstantStreams(call.total) :
         LET zs == Generator(call.seed, entropy, call.total)
         IN  /\ call' = [call EXCEPT !.zs = entropy]
             /\ stream' = {SimulateStreamResult(call.design_sbc,
                                call.deviation_start, call.total, zs)}
             /\ recent_avg' = SimWindow(SimReadings(call.design_sbc,
                                call.deviation_start, call.total, zs))
    /\ first' = stream
    /\ UNCHANGED <<outcome, patch, prev, loc, gem, run, req, resp>>

\* SensorEngine.ingest_real_readings
ingest_real_readings ==
    /\ outcome = "none"
    /\ call.op = "ingest_real_readings"
    /\ stream' = {IngestResult(call.raw_values, call.design_sbc)}
    /\ recent_avg' = IngestWindow(call.raw_values)
    /\ outcome' = "returned"
    /\ UNCHANGED <<call, patch, prev, loc, gem, first, run, req, resp>>

\* AdaptiveRecalibrationEngine.generate_patch, up to the call of
\* _gemini_explanations: the tier and the cost delta are fixed here.
\* project_context and current_variant only enter the text of the prompt;
\* what the service answers is a free choice of call_gemini below.
\* The engine keeps no state between calls: a session is a first call and
\* one more, whose patch is compared with the first (prev).
generate_patch ==
    /\ \/ call.op = "none"
       \/ call.op = "generate_patch" /\ outcome \in {"returned", "raised"} /\ prev = {}
    /\ \E deviation_percent \in PatchDeviations, budget_cr \in Budgets,
          narrative \in Narratives :
         LET tier == SelectTier(deviation_percent)
         IN  /\ call' = [NoCall EXCEPT !.op = "generate_patch",
                                       !.deviation_percent = deviation_percent,
                                       !.budget_cr = budget_cr,
                                       !.project_context = narrative.project_context,
                                       !.current_variant = narrative.current_variant]
             /\ loc' = [tier |-> tier,
                        cost_delta |-> CostDelta(budget_cr, tier.cost_delta_pct)]
    /\ outcome' = "running"
    /\ prev' = {[input_deviation   |-> call.deviation_percent,
                 budget_cr         |-> call.budget_cr,
                 deviation_percent |-> p.deviation_percent,
                 severity          |-> p.severity,
                 structural_action |-> p.structural_action,
                 add_depth_mm      |-> p.add_depth_mm,
                 add_piles         |-> p.add_piles,
                 new_risk_band     |-> p.new_risk_band,
                 cost_delta_cr     |-> p.cost_delta_cr,
                 is_code_reference |-> p.is_code_reference,
                 requires_approval |-> p.requires_approval] : p \in patch}
    /\ patch' = {}
    /\ stream' = {}
    /\ recent_avg' = {}
    /\ first' = {}
    /\ UNCHANGED <<run, req, resp>>
    /\ gem' = [IdleGem EXCEPT !.status = "running"]

\* one iteration of the retry loop of call_gemini: one request to the service
call_gemini ==
    /\ gem.status = "running"
    /\ \E o \in ServiceOutcomes : gem' = AttemptStep(gem, o)
    /\ UNCHANGED <<call, outcome, stream, recent_avg, patch, prev, loc, first, run, req, resp>>

\* call_gemini has returned or raised: call_gemini_json and
\* _gemini_explanations finish, and generate_patch builds the patch
gemini_explanations ==
    /\ outcome = "running"
    /\ gem.status \in {"returned", "raised"}
    /\ LET x == GeminiExplanations(call.deviation_percent, loc.tier.action, gem)
       IN  IF x.raised
           THEN /\ outcome' = "raised"
                /\ patch' = {}
           ELSE /\ outcome' = "returned"
                /\ patch' = {RecalibrationPatch(call.deviation_percent, loc.tier,
                                                loc.cost_delta, x.rationale,
                                                x.site_instr)}
    /\ UNCHANGED <<call, stream, recent_avg, prev, loc, gem, first, run, req, resp>>

Next ==
    \/ simulate_stream
    \/ repeat_simulate_stream
    \/ ingest_real_readings
    \/ generate_patch
    \/ call_gemini
    \/ gemini_explanations

Spec == Init /\ [][Next]_vars

\* One call of generate_patch, run to completion: the call is synchronous,
\* and every request to the service is answered or fails.
NextPatch ==
    \/ call.op = "none" /\ generate_patch
    \/ call_gemini
    \/ gemini_explanations

InitPatch ==
    /\ call = NoCall
    /\ outcome = "none"
    /\ stream = {}
    /\ recent_avg = {}
    /\ patch = {}
    /\ prev = {}
    /\ loc = NoLoc
    /\ gem = IdleGem
    /\ first = {}
    /\ run = NoRun
    /\ req = NoReq
    /\ resp = {}

PatchSpec ==
    /\ InitPatch
    /\ [][NextPatch]_vars
    /\ WF_vars(call_gemini)
    /\ WF_vars(gemini_explanations)

(***************************************************************************)
(* nexus_pipeline.py: NEXUSPipeline.run, one action per step.              *)
(***************************************************************************)
\* budgets, loads and seismic zones of the project brief, valid and invalid
Projects ==
    {[load_kN |-> l, budget_cr |-> b, seismic_zone |-> z] :
        l \in {0, 4500}, b \in {0, 25, 50, 1250}, z \in {"III", "VI"}}

\* ProjectInput.validate: whether it raises ValueError
ValidateRaises(project) ==
    \/ project.load_kN <= 0
    \/ project.budget_cr <= 0
    \/ project.seismic_zone \notin {"II", "III", "IV", "V"}

\* ProjectInput.to_prompt_context
ToPromptContext(project) ==
    <<"Seismic Zone: ", project.seismic_zone, " | Budget: ",
      ToString(project.budget_cr)>>

\* _deterministic_variants: ids and risk scores (in tenths)
DeterministicVariants ==
    <<[id |-> "V1", risk_score |-> 65], [id |-> "V2", risk_score |-> 38],
      [id |-> "V3", risk_score |-> 15]>>

\* what generate_variants can return: the service's list when it passes the
\* key check (an empty list passes it), the deterministic variants otherwise
VariantLists ==
    {DeterministicVariants,
     <<[id |-> "V1", risk_score |-> 20], [id |-> "V2", risk_score |-> 70]>>,
     <<>>}

\* min(variants, key=risk_score): the first variant of least risk
Recommended(variants) ==
    LET i == CHOOSE i \in 1..Len(variants) :
                /\ \A j \in 1..Len(variants) :
                      variants[i].risk_score <= variants[j].risk_score
                /\ \A j \in 1..(i - 1) :
                      variants[j].risk_score > variants[i].risk_score
    IN  variants[i]

\* failure_probability of DigitalTwinEngine.simulate, in hundredths of a %:
\* a constant of the build (the generator is seeded with 42), left open here
FailureProbabilities == {0, 250}

\* ImpactModel.calculate: the rework and delay savings of the report, in
\* hundredths of a Cr (0.22 * 0.45 * (1 + failure_prob / 100) and 0.10 * 0.35
\* of the budget)
ImpactCalculate(failure_prob, budget_cr) ==
    [rework_saving_cr |->
        RoundHalfEven(budget_cr * 99 * (10000 + failure_prob), 10000000),
     delay_saving_cr |-> RoundHalfEven(budget_cr * 35, 1000)]

\* standard-normal variates of the pipeline's and the endpoint's simulated
\* stream, in tenths: the first 17 draws are a, the last three b
PipelineVariates == {3, 4, 21, 22, 30, 31}

PipelineDraws ==
    {[i \in 1..SENSOR_TOTAL_READINGS |->
         IF i <= SENSOR_TOTAL_READINGS - 3 THEN a ELSE b] :
        a \in PipelineVariates, b \in PipelineVariates}

\* the keyword arguments of the call of generate_patch in run; the stream's
\* deviation (hundredths of a %) is passed on as it is (thousandths here)
RunPatchArgs_default_budget(s, project, ctx, recommended) ==
    [NoCall EXCEPT !.op = "generate_patch",
                   !.deviation_percent = 10 * s.deviation_percent,
                   !.project_context = ctx,
                   !.current_variant = {recommended},
                   !.budget_cr = 1000]

RunPatchArgs(s, project, ctx, recommended) ==
    [NoCall EXCEPT !.op = "generate_patch",
                   !.deviation_percent = 10 * s.deviation_percent,
                   !.project_context = ctx,
                   !.current_variant = {recommended},
                   !.budget_cr = project.budget_cr]

\* project.validate()
run_validate ==
    /\ run.pc = "validate"
    /\ run' = IF ValidateRaises(run.project)
              THEN [run EXCEPT !.pc = "raised", !.exc = "ValueError"]
              ELSE [run EXCEPT !.pc = "design"]
    /\ UNCHANGED <<call, outcome, stream, recent_avg, patch, prev, loc, gem,
                   first, req, resp>>

\* variants = self.gdm.generate_variants(project); recommended = min(...)
run_generate_variants ==
    /\ run.pc = "design"
    /\ \E variants \in VariantLists :
         run' = IF variants = <<>>
                THEN [run EXCEPT !.pc = "raised", !.exc = "ValueError"]
                ELSE [run EXCEPT !.pc = "twin",
                                 !.recommended = {Recommended(variants)}]
    /\ UNCHANGED <<call, outcome, stream, recent_avg, patch, prev, loc, gem,
                   first, req, resp>>

\* sim = self.twin.simulate(project_context=ctx)
run_twin_simulate ==
    /\ run.pc = "twin"
    /\ \E fp \in FailureProbabilities :
         run' = [run EXCEPT !.pc = "sensor",
                            !.sim = {[failure_probability |-> fp]}]
    /\ UNCHANGED <<call, outcome, stream, recent_avg, patch, prev, loc, gem,
                   first, req, resp>>

\* stream = self.sensor.simulate_stream(design_sbc=180.0)
run_simulate_stream ==
    /\ run.pc = "sensor"
    /\ \E entropy \in PipelineDraws :
         LET zs == Generator({}, entropy, SENSOR_TOTAL_READINGS)
         IN  /\ stream' = {SimulateStreamResult(1800, SENSOR_DEVIATION_START,
                                                SENSOR_TOTAL_READINGS, zs)}
             /\ recent_avg' = SimWindow(SimReadings(1800, SENSOR_DEVIATION_START,
                                                    SENSOR_TOTAL_READINGS, zs))
    /\ run' = [run EXCEPT !.pc = "recalibrate"]
    /\ UNCHANGED <<call, outcome, patch, prev, loc, gem, first, req, resp>>

\* patch = None; if stream.trigger_recal: patch = self.are.generate_patch(...)
\* Entering generate_patch fixes the tier and the cost delta; call_gemini and
\* gemini_explanations then finish it.
run_recalibrate ==
    /\ run.pc = "recalibrate"
    /\ \E s \in stream :
         IF s.trigger_recal
         THEN LET args == RunPatchArgs(s, run.project, ToPromptContext(run.project),
                                       CHOOSE v \in run.recommended : TRUE)
                  tier == SelectTier(args.deviation_percent)
              IN  /\ call' = args
                  /\ loc' = [tier |-> tier,
                             cost_delta |-> CostDelta(args.budget_cr, tier.cost_delta_pct)]
                  /\ outcome' = "running"
                  /\ gem' = [IdleGem EXCEPT !.status = "running"]
                  /\ run' = [run EXCEPT !.pc = "policy",
                                        !.policy_calls = run.policy_calls + 1]
         ELSE /\ run' = [run EXCEPT !.pc = "impact"]
              /\ UNCHANGED <<call, loc, outcome, gem>>
    /\ patch' = {}
    /\ UNCHANGED <<stream, recent_avg, prev, first, req, resp>>

\* impact = self.impact.calculate(sim.failure_probability, project.budget_cr)
\* and the return of run; an exception of generate_patch would leave run
run_impact ==
    /\ \/ run.pc = "impact"
       \/ run.pc = "policy" /\ outcome \in {"returned", "raised"}
    /\ run' = IF run.pc = "policy" /\ outcome = "raised"
              THEN [run EXCEPT !.pc = "raised", !.exc = "Exception"]
              ELSE [run EXCEPT !.pc = "returned",
                       !.impact = {ImpactCalculate(x.failure_probability,
                                                   run.project.budget_cr) :
                                   x \in run.sim}]
    /\ UNCHANGED <<call, outcome, stream, recent_avg, patch, prev, loc, gem,
                   first, req, resp>>

NextPipeline ==
    \/ run_validate
    \/ run_generate_variants
    \/ run_twin_simulate
    \/ run_simulate_stream
    \/ run_recalibrate
    \/ call_gemini
    \/ gemini_explanations
    \/ run_impact

InitPipeline ==
    /\ call = NoCall
    /\ outcome = "none"
    /\ stream = {}
    /\ recent_avg = {}
    /\ patch = {}
    /\ prev = {}
    /\ loc = NoLoc
    /\ gem = IdleGem
    /\ first = {}
    /\ run \in {[NoRun EXCEPT !.pc = "validate", !.project = p] : p \in Projects}
    /\ req = NoReq
    /\ resp = {}

PipelineSpec == InitPipeline /\ [][NextPipeline]_vars

(***************************************************************************)
(* server.py: POST /sensor/stream.                                         *)
(***************************************************************************)
\* SensorRequest: readings is {} for None, {l} for a list l
ServerReadings == UNION {[1..n -> RawValues] : n \in 0..3} \cup {ScenarioDrop}

SensorRequests ==
    {[posted |-> TRUE, design_sbc |-> b, readings |-> r] :
        b \in {1800, 1000}, r \in {{}} \cup {{l} : l \in ServerReadings}}

\* "if req.readings:": None and the empty list are both false
Truthy(readings) == \E l \in readings : l # <<>>

\* the dict the endpoint returns
StreamResponse(result) ==
    [deviation_detected |-> result.deviation_detected,
     deviation_percent  |-> result.deviation_percent,
     alert_level        |-> result.alert_level,
     trigger_recal      |-> result.trigger_recal,
     last_5_readings    |-> LastFive(SbcValues(result.readings))]

\* sensor_stream(req); call records the engine call the endpoint made
sensor_stream ==
    /\ req.posted
    /\ resp = {}
    /\ IF Truthy(req.readings)
       THEN LET l == CHOOSE l \in req.readings : TRUE
            IN  /\ call' = [NoCall EXCEPT !.op = "ingest_real_readings",
                                          !.raw_values = l,
                                          !.design_sbc = req.design_sbc]
                /\ stream' = {IngestResult(l, req.design_sbc)}
                /\ recent_avg' = IngestWindow(l)
       ELSE \E entropy \in PipelineDraws :
              LET zs == Generator({}, entropy, SENSOR_TOTAL_READINGS)
              IN  /\ call' = [NoCall EXCEPT !.op = "simulate_stream",
                                            !.design_sbc = req.design_sbc,
                                            !.deviation_start = SENSOR_DEVIATION_START,
                                            !.total = SENSOR_TOTAL_READINGS,
                                            !.zs = entropy]
                  /\ stream' = {SimulateStreamResult(req.design_sbc,
                                    SENSOR_DEVIATION_START, SENSOR_TOTAL_READINGS, zs)}
                  /\ recent_avg' = SimWindow(SimReadings(req.design_sbc,
                                    SENSOR_DEVIATION_START, SENSOR_TOTAL_READINGS, zs))
    /\ resp' = {StreamResponse(r) : r \in stream'}
    /\ outcome' = "returned"
    /\ UNCHANGED <<patch, prev, loc, gem, first, run, req>>

NextServer == sensor_stream

InitServer ==
    /\ call = NoCall
    /\ outcome = "none"
    /\ stream = {}
    /\ recent_avg = {}
    /\ patch = {}
    /\ prev = {}
    /\ loc = NoLoc
    /\ gem = IdleGem
    /\ first = {}
    /\ run = NoRun
    /\ req \in SensorRequests
    /\ resp = {}

ServerSpec == InitServer /\ [][NextServer]_vars

TypeOK ==
    /\ outcome \in {"none", "running", "returned", "raised"}
    /\ Cardinality(stream) <= 1
    /\ Cardinality(patch) <= 1
    /\ Cardinality(prev) <= 1
    /\ Cardinality(first) <= 1
    /\ Cardinality(resp) <= 1
    /\ run.policy_calls \in 0..1
    /\ gem.status \in {"idle", "running", "returned", "raised"}

(***************************************************************************)
(* Properties.                                                             *)
(***************************************************************************)
Returned(op) == call.op = op /\ outcome = "returned"

\* the fields the policy table of the specification prescribes for a tier
HasTierFields(p, severity, depth, piles, band, approval) ==
    /\ p.severity = severity
    /\ p.add_depth_mm = depth
    /\ p.add_piles = piles
    /\ p.new_risk_band = band
    /\ p.requires_approval = approval

\* the row of the policy table for a deviation d, in thousandths of a %
FollowsPolicyTable(p, d) ==
    /\ d > 20000 => HasTierFields(p, "CRITICAL", 600, 4, "LOW", TRUE)
    /\ (d > 10000 /\ d <= 20000) => HasTierFields(p, "MODERATE", 350, 2, "MODERATE", TRUE)
    /\ d <= 10000 => HasTierFields(p, "MINOR", 150, 0, "LOW-MODERATE", FALSE)

\* the tier's fraction of the budget, in hundredths
TierFraction(severity) ==
    IF severity = "CRITICAL" THEN 18 ELSE IF severity = "MODERATE" THEN 9 ELSE 3

\* c (hundredths of a Cr) is budget * fraction rounded to two decimals:
\* no hundredth is nearer to the exact product
IsRoundedCost(c, budget_cr, severity) ==
    2 * Abs(100 * c - budget_cr * TierFraction(severity)) <= 100

\* C1: for every deviation_percent (zero, negative and the boundaries 10 and
\* 20 included) and any budget, generate_patch never raises and the patch it
\* returns carries exactly the fields of the one tier the table selects:
\* > 20 CRITICAL/600/4/LOW/approval, (10, 20] MODERATE/350/2/MODERATE/approval,
\* <= 10 MINOR/150/0/LOW-MODERATE/no approval.
C1_TierTable ==
    /\ call.op = "generate_patch" => outcome # "raised"
    /\ \A p \in patch : FollowsPolicyTable(p, call.deviation_percent)

C1_Witness ==
    /\ Returned("generate_patch")
    /\ call.deviation_percent = 20000
    /\ \E p \in patch : p.severity = "MODERATE"

\* C2: in every result of simulate_stream or ingest_real_readings the alert
\* level is one of NONE/WATCH/WARNING/CRITICAL and is fixed by the result's
\* own deviation_percent: CRITICAL iff > 20, WARNING iff in (10, 20], WATCH
\* iff in (5, 10], NONE iff <= 5, the boundaries 5, 10, 20 in the lower band.
C2_AlertBands ==
    \A s \in stream :
        /\ s.alert_level \in {"NONE", "WATCH", "WARNING", "CRITICAL"}
        /\ s.alert_level = "CRITICAL" <=> s.deviation_percent > 2000
        /\ s.alert_level = "WARNING" <=>
              (s.deviation_percent > 1000 /\ s.deviation_percent <= 2000)
        /\ s.alert_level = "WATCH" <=>
              (s.deviation_percent > 500 /\ s.deviation_percent <= 1000)
        /\ s.alert_level = "NONE" <=> s.deviation_percent <= 500

C2_Witness ==
    /\ Returned("simulate_stream")
    /\ \E s \in stream : s.deviation_percent = 2000 /\ s.alert_level = "WARNING"

\* C3: in every result of either entry path (the short raw sequence
\* included) trigger_recal is true iff deviation_percent > 5.0, hence
\* exactly when the alert level is WATCH, WARNING or CRITICAL.
C3_TriggerIffAboveFive ==
    \A s \in stream :
        /\ s.trigger_recal <=> s.deviation_percent > 500
        /\ s.trigger_recal <=> s.alert_level \in {"WATCH", "WARNING", "CRITICAL"}

C3_Witness ==
    /\ Returned("ingest_real_readings")
    /\ \E s \in stream : s.deviation_percent = 500 /\ ~s.trigger_recal

\* C4: every result of either entry path, for any inputs, satisfies
\* trigger_recal => deviation_detected.
C4_TriggerImpliesDetected ==
    \A s \in stream : s.trigger_recal => s.deviation_detected

C4_Witness ==
    /\ Returned("ingest_real_readings")
    /\ \E s \in stream : s.trigger_recal /\ s.deviation_detected

\* C5: ingest_real_readings on 0, 1 or 2 raw values returns no deviation,
\* 0.0 %, alert NONE and no trigger whatever the values and the baseline,
\* computes no window average, and still wraps the values as readings.
C5_ShortRawSequence ==
    (Returned("ingest_real_readings") /\ Len(call.raw_values) < 3) =>
        /\ recent_avg = {}
        /\ \E s \in stream :
            /\ ~s.deviation_detected
            /\ s.deviation_percent = 0
            /\ s.alert_level = "NONE"
            /\ ~s.trigger_recal
            /\ Len(s.readings) = Len(call.raw_values)
            /\ \A i \in 1..Len(call.raw_values) :
                  /\ s.readings[i].index = i
                  /\ s.readings[i].sbc_kNm2 = call.raw_values[i]

C5_Witness ==
    /\ Returned("ingest_real_readings")
    /\ call.raw_values = <<800, 800>>
    /\ call.design_sbc = 1000
    /\ stream # {}

\* C6: when the enrichment service is unreachable or raises, generate_patch
\* still returns a patch: rationale and site_instructions are the non-empty
\* fallback strings built from the deviation and the action, and the tier
\* fields and the cost delta are those of the table.
C6_FallbackOnServiceFailure ==
    (call.op = "generate_patch" /\ gem.status = "raised" /\ outcome # "running") =>
        /\ outcome = "returned"
        /\ \E p \in patch :
            /\ Len(p.gemini_rationale) > 0
            /\ Len(p.site_instructions) > 0
            /\ p.gemini_rationale = FallbackRationale(call.deviation_percent)
            /\ p.site_instructions = FallbackInstructions(p.structural_action)
            /\ FollowsPolicyTable(p, call.deviation_percent)
            /\ IsRoundedCost(p.cost_delta_cr, call.budget_cr, p.severity)

C6_Witness ==
    /\ Returned("generate_patch")
    /\ gem.status = "raised"
    /\ gem.exc = "NameError"
    /\ patch # {}

\* C7: one call of call_gemini makes at most 3 requests to the service and
\* always ends, either returning the response text or raising; it never
\* returns without a response.
C7_BoundedRetry ==
    /\ [](gem.requests <= 3)
    /\ [](gem.status = "returned" => gem.value = "text")
    /\ (gem.status = "running") ~> (gem.status \in {"returned", "raised"})

C7_Witness ==
    /\ gem.status = "raised"
    /\ gem.exc = "NameError"
    /\ gem.requests = 1

\* C8 as stated: the raw readings [180, 150, 148, 151, 149] against a
\* baseline of 180 give recent_avg 149.6 and a deviation of about 16.89 %,
\* alert WARNING and a trigger; that deviation gives MODERATE / 350 / 2.
C8_ScenarioAsStated ==
    /\ (Returned("ingest_real_readings") /\ call.raw_values = ScenarioDrop
            /\ call.design_sbc = 1800) =>
          /\ \E a \in recent_avg : a.sum = 1496 * a.n
          /\ \E s \in stream :
                /\ s.deviation_percent \in 1688..1690
                /\ s.alert_level = "WARNING"
                /\ s.trigger_recal
    /\ (Returned("generate_patch") /\ call.deviation_percent = 16890) =>
          \E p \in patch :
                p.severity = "MODERATE" /\ p.add_depth_mm = 350 /\ p.add_piles = 2

\* C8 (amended): the raw readings [180, 150, 148, 151, 149] against a
\* baseline of 180 give recent_avg 155.6 and a deviation of 13.56 %, alert
\* WARNING and a trigger; that deviation gives MODERATE / 350 / 2.
C8_Scenario ==
    /\ (Returned("ingest_real_readings") /\ call.raw_values = ScenarioDrop
            /\ call.design_sbc = 1800) =>
          /\ \E a \in recent_avg : a.sum = 1556 * a.n
          /\ \E s \in stream :
                /\ s.deviation_percent = 1356
                /\ s.alert_level = "WARNING"
                /\ s.trigger_recal
    /\ (Returned("generate_patch") /\ call.deviation_percent = 13560) =>
          \E p \in patch :
                p.severity = "MODERATE" /\ p.add_depth_mm = 350 /\ p.add_piles = 2

C8_Witness ==
    /\ Returned("ingest_real_readings")
    /\ call.raw_values = ScenarioDrop
    /\ call.design_sbc = 1800
    /\ stream # {}

\* C9: simulate_stream and ingest_real_readings reject a non-positive
\* baseline, a non-positive total and a degradation start outside 1..total:
\* such a call never returns a SensorStreamResult.
C9_RejectsInvalidInput ==
    \A s \in stream :
        /\ call.design_sbc > 0
        /\ call.op = "simulate_stream" =>
              /\ call.total > 0
              /\ call.deviation_start \in 1..call.total

\* C10: cost_delta_cr is the budget times the tier's fraction (0.18, 0.09,
\* 0.03) rounded to two decimals; for a fixed tier it does not decrease when
\* the budget grows, and for a positive budget it is not negative.
C10_CostDelta ==
    \A p \in patch :
        /\ IsRoundedCost(p.cost_delta_cr, call.budget_cr, p.severity)
        /\ call.budget_cr > 0 => p.cost_delta_cr >= 0
        /\ \A q \in prev :
              q.severity = p.severity =>
                /\ q.budget_cr <= call.budget_cr => q.cost_delta_cr <= p.cost_delta_cr
                /\ q.budget_cr >= call.budget_cr => q.cost_delta_cr >= p.cost_delta_cr

C10_Witness ==
    /\ Returned("generate_patch")
    /\ call.budget_cr = 50
    /\ \E p \in patch : \E q \in prev :
          /\ q.severity = p.severity
          /\ q.budget_cr = 25
          /\ q.cost_delta_cr < p.cost_delta_cr

\* C11: the two entry paths detect differently.  simulate_stream marks the
\* readings at index >= the degradation start as anomalous and sets
\* deviation_detected iff at least one reading is anomalous, whatever the
\* deviation_percent that results; ingest_real_readings on 3 or more values
\* sets deviation_detected iff the rounded deviation_percent is > 0 and
\* marks no reading as anomalous.
C11_DetectionPredicates ==
    /\ Returned("simulate_stream") =>
          \A s \in stream :
              /\ \A i \in 1..Len(s.readings) :
                    s.readings[i].is_anomaly <=> i >= call.deviation_start
              /\ s.deviation_detected <=>
                    \E i \in 1..Len(s.readings) : s.readings[i].is_anomaly
    /\ (Returned("ingest_real_readings") /\ Len(call.raw_values) >= 3) =>
          \A s \in stream :
              /\ s.deviation_detected <=> s.deviation_percent > 0
              /\ \A i \in 1..Len(s.readings) : ~s.readings[i].is_anomaly

C11_Witness ==
    /\ Returned("simulate_stream")
    /\ \E s \in stream :
          /\ s.deviation_detected
          /\ s.deviation_percent <= 0
          /\ s.alert_level = "NONE"

\* the sum of the values of the readings from index i on
RECURSIVE SumFrom(_, _)
SumFrom(readings, i) ==
    IF i > Len(readings) THEN 0 ELSE readings[i].sbc_kNm2 + SumFrom(readings, i + 1)

\* dev (hundredths of a %) is (B - sum / k) / B * 100 rounded to two
\* decimals: no hundredth is nearer to the exact quotient
IsRoundedDeviation(dev, B, sum, k) ==
    2 * Abs(dev * k * B - (k * B - sum) * 10000) <= Abs(k * B)

\* deviation_percent is the rounded deviation of the last min(5, n) readings
IsWindowDeviation(s, B) ==
    LET n == Len(s.readings)
        k == IF n < 5 THEN n ELSE 5
    IN  IsRoundedDeviation(s.deviation_percent, B, SumFrom(s.readings, n - k + 1), k)

SameVerdict(s, t) ==
    /\ s.deviation_percent = t.deviation_percent
    /\ s.alert_level = t.alert_level
    /\ s.trigger_recal = t.trigger_recal

\* C12: for n readings (n >= 3 raw values, or a simulated stream with
\* 1 <= start <= total) and baseline B, deviation_percent is
\* (B - mean of the last min(5, n) readings) / B * 100 rounded to two
\* decimals, and replacing any reading before the last five changes neither
\* deviation_percent nor alert_level nor trigger_recal.
C12_LastFiveOnly ==
    /\ (Returned("ingest_real_readings") /\ Len(call.raw_values) >= 3) =>
          \A s \in stream :
              /\ IsWindowDeviation(s, call.design_sbc)
              /\ \A j \in 1..(Len(call.raw_values) - 5) : \A v \in RawValues :
                    SameVerdict(s, IngestResult([call.raw_values EXCEPT ![j] = v],
                                                call.design_sbc))
    /\ (Returned("simulate_stream") /\ call.deviation_start \in 1..call.total) =>
          \A s \in stream :
              /\ IsWindowDeviation(s, call.design_sbc)
              /\ \A j \in 1..(call.total - 5) : \A z \in ZDraws :
                    SameVerdict(s, SimulateStreamResult(call.design_sbc,
                                       call.deviation_start, call.total,
                                       [Generator(call.seed, call.zs, call.total)
                                            EXCEPT ![j] = z]))

C12_Witness ==
    /\ Returned("ingest_real_readings")
    /\ call.raw_values = <<950, 800, 800, 800, 800, 800>>
    /\ call.design_sbc = 1000
    /\ \E s \in stream : s.deviation_percent = 2000

\* C13: simulate_stream is deterministic under a caller-supplied seed: two
\* calls with the same baseline, degradation start, total and seed return
\* identical readings, deviation_detected, deviation_percent, alert_level
\* and trigger_recal.
C13_SeededDeterminism ==
    (Returned("simulate_stream") /\ call.seed # {}) =>
        \A s \in stream : \A f \in first :
            /\ s.readings = f.readings
            /\ s.deviation_detected = f.deviation_detected
            /\ s.deviation_percent = f.deviation_percent
            /\ s.alert_level = f.alert_level
            /\ s.trigger_recal = f.trigger_recal

C13_Witness ==
    /\ Returned("simulate_stream")
    /\ call.seed = {2}
    /\ call.total = 6
    /\ call.deviation_start = 2
    /\ first # {}
    /\ first = stream
    /\ \E s \in stream : s.trigger_recal

\* what the text the service returned is, once the code fences are stripped
ResponseShape(t) ==
    LET d == StripFences(t)
    IN  IF d = <<BothKeysDoc>> THEN "complete"
        ELSE IF d \in {<<OnlyRationaleDoc>>, <<OnlySiteDoc>>} THEN "missing_key"
        ELSE IF d = <<ListDoc>> THEN "not_object"
        ELSE "unparsable"

\* generate_patch has finished on a text the service returned
FinishedOnText ==
    call.op = "generate_patch" /\ outcome # "running" /\ gem.status = "returned"

HasFallbackTexts(p) ==
    /\ p.gemini_rationale = FallbackRationale(call.deviation_percent)
    /\ p.site_instructions = FallbackInstructions(p.structural_action)

\* C14 as stated: a response that cannot be parsed after fence stripping,
\* that is a JSON value other than an object, or that is an object lacking
\* either key, makes generate_patch return exactly the fallback rationale
\* and site_instructions of the unreachable-service case; the parse error
\* never reaches the caller.
C14_MalformedAsStated ==
    (FinishedOnText /\ ResponseShape(gem.text) # "complete") =>
        /\ outcome = "returned"
        /\ \E p \in patch : HasFallbackTexts(p)

\* C14 (amended): a response that cannot be parsed after fence stripping, or
\* that is a JSON value other than an object, makes generate_patch return
\* exactly the fallback rationale and site_instructions of the
\* unreachable-service case, and no error reaches the caller; an object
\* lacking one of the two keys is not a failure: the missing field is the
\* empty string and the other is the service's text.
C14_MalformedResponse ==
    /\ (FinishedOnText /\ ResponseShape(gem.text) \in {"unparsable", "not_object"}) =>
          /\ outcome = "returned"
          /\ \E p \in patch : HasFallbackTexts(p)
    /\ (FinishedOnText /\ ResponseShape(gem.text) = "missing_key") =>
          /\ outcome = "returned"
          /\ \E p \in patch :
                \/ p.gemini_rationale = <<"R">> /\ p.site_instructions = <<>>
                \/ p.gemini_rationale = <<>> /\ p.site_instructions = <<"S">>

C14_Witness ==
    /\ FinishedOnText
    /\ gem.text = <<ListDoc>>
    /\ \E p \in patch : HasFallbackTexts(p)

\* C15: when a request fails with a rate-limit (429) failure and fewer than
\* 2 retries have been made, call_gemini makes another attempt, so the call
\* is still running after it; a failure of any other kind, or a 429 on the
\* third attempt, is raised with no further attempt.
C15_RetryOnRateLimit ==
    /\ (gem.last = "error429" /\ gem.requests < 3) =>
          gem.status = "running" /\ gem.attempt = gem.requests
    /\ (gem.last = "error429" /\ gem.requests = 3) => gem.status = "raised"
    /\ gem.last \in {"error", "none"} =>
          gem.status = "raised" /\ gem.requests = gem.attempt + 1

\* C16: for a fixed deviation_percent and budget the fields deviation_percent,
\* severity, structural_action, add_depth_mm, add_piles, new_risk_band,
\* cost_delta_cr, is_code_reference and requires_approval of the patch are
\* the same in two calls, whatever the enrichment did and whatever
\* project_context and current_variant were passed.
C16_StructuralFieldsIndependent ==
    \A p \in patch : \A q \in prev :
        (q.input_deviation = call.deviation_percent /\ q.budget_cr = call.budget_cr) =>
            /\ p.deviation_percent = q.deviation_percent
            /\ p.severity = q.severity
            /\ p.structural_action = q.structural_action
            /\ p.add_depth_mm = q.add_depth_mm
            /\ p.add_piles = q.add_piles
            /\ p.new_risk_band = q.new_risk_band
            /\ p.cost_delta_cr = q.cost_delta_cr
            /\ p.is_code_reference = q.is_code_reference
            /\ p.requires_approval = q.requires_approval

C16_Witness ==
    /\ Returned("generate_patch")
    /\ call.deviation_percent = 20004
    /\ call.project_context # <<>>
    /\ gem.status = "raised"
    /\ \E p \in patch : \E q \in prev :
          /\ q.input_deviation = call.deviation_percent
          /\ q.budget_cr = call.budget_cr
          /\ q.requires_approval
          /\ p.requires_approval

\* C17: in one NEXUSPipeline.run the sensor stream is analysed before any
\* recalibration; generate_patch is invoked iff the stream's trigger_recal is
\* true, exactly once, with the stream's deviation_percent and the project's
\* budget; otherwise the returned patch is None; the impact calculation runs
\* in both cases.
C17_PolicyInvocation ==
    /\ (run.policy_calls > 0 \/ gem.status # "idle" \/ patch # {}) => stream # {}
    /\ run.pc \in {"validate", "design", "twin", "sensor", "recalibrate"} =>
          run.policy_calls = 0
    /\ run.pc \in {"policy", "impact", "returned"} =>
          \E s \in stream :
              /\ run.policy_calls = (IF s.trigger_recal THEN 1 ELSE 0)
              /\ s.trigger_recal =>
                    /\ call.op = "generate_patch"
                    /\ call.deviation_percent = 10 * s.deviation_percent
                    /\ call.budget_cr = run.project.budget_cr
              /\ ~s.trigger_recal =>
                    /\ patch = {}
                    /\ call.op = "none"
                    /\ gem.status = "idle"
    /\ run.pc = "returned" =>
          /\ run.impact # {}
          /\ \E s \in stream : patch # {} <=> s.trigger_recal

C17_Witness ==
    /\ run.pc = "returned"
    /\ run.policy_calls = 1
    /\ run.impact # {}
    /\ \E s \in stream : s.trigger_recal /\ s.alert_level = "WATCH"
    /\ \E p \in patch : p.cost_delta_cr = CostDelta(run.project.budget_cr, 3)

\* C18: whenever run produces a patch, the stream's alert level and the
\* patch's severity agree band for band (CRITICAL iff CRITICAL, WARNING iff
\* MODERATE, WATCH iff MINOR); no patch is produced for alert NONE, so the
\* patch's deviation_percent is always > 5.
C18_AlertMatchesSeverity ==
    run.pc # "idle" =>
        \A p \in patch : \E s \in stream :
            /\ s.alert_level = "CRITICAL" <=> p.severity = "CRITICAL"
            /\ s.alert_level = "WARNING" <=> p.severity = "MODERATE"
            /\ s.alert_level = "WATCH" <=> p.severity = "MINOR"
            /\ s.alert_level # "NONE"
            /\ p.deviation_percent > 500

C18_Witness ==
    /\ run.pc = "returned"
    /\ \E p \in patch : \E s \in stream :
          /\ s.deviation_percent = 2000
          /\ s.alert_level = "WARNING"
          /\ p.severity = "MODERATE"
          /\ p.deviation_percent = 2000

\* the severity of the policy table's row for a deviation d, in thousandths
TableSeverity(d) ==
    IF d > 20000 THEN "CRITICAL" ELSE IF d > 10000 THEN "MODERATE" ELSE "MINOR"

\* C19 as stated: the severity of every patch is the tier the table assigns
\* to the patch's own echoed deviation_percent (the input rounded to two
\* decimals), also for inputs that round onto a boundary (20.004, 10.004).
C19_SelfConsistentAsStated ==
    \A p \in patch : p.severity = TableSeverity(10 * p.deviation_percent)

\* C19 (amended): the echoed deviation_percent is the input rounded to two
\* decimals and the severity is the tier the table assigns to the unrounded
\* input; it is the tier of the echoed value too, except for an input above
\* a boundary that rounds down onto it (20.004 gives CRITICAL with an echoed
\* 20.0, 10.004 gives MODERATE with an echoed 10.0).
C19_SeverityOfInput ==
    call.op = "generate_patch" =>
        \A p \in patch :
            /\ 2 * Abs(10 * p.deviation_percent - call.deviation_percent) <= 10
            /\ p.severity = TableSeverity(call.deviation_percent)
            /\ p.severity # TableSeverity(10 * p.deviation_percent) =>
                  /\ p.deviation_percent \in {1000, 2000}
                  /\ call.deviation_percent > 10 * p.deviation_percent

C19_Witness ==
    /\ Returned("generate_patch")
    /\ call.deviation_percent = 20004
    /\ \E p \in patch : p.deviation_percent = 2000 /\ p.severity = "CRITICAL"

\* C20: /sensor/stream is a pass-through: whenever the request carries a
\* readings list, of any length (empty or shorter than 3 included), the
\* response is that of ingest_real_readings on the list and the request's
\* design_sbc; the simulated stream is used only without a readings list.
C20_ReadingsPassThrough ==
    \A r \in resp :
        /\ \A l \in req.readings :
              /\ call.op = "ingest_real_readings"
              /\ r = StreamResponse(IngestResult(l, req.design_sbc))
        /\ call.op = "simulate_stream" => req.readings = {}

====
